---- MODULE Spec2Model ----
(***************************************************************************)
(* Pharmacy Management API (src/main.py, src/schemas.py).                  *)
(*                                                                         *)
(* Conventions of the model:                                               *)
(*   - a text value is a sequence of one-character strings;                *)
(*   - an optional value (an omitted body field, an omitted query          *)
(*     parameter, a stored null) is a set with at most one element:        *)
(*     {} is None / omitted, {v} is the value v;                           *)
(*   - float fields (price, tax_rate, subtotal ...) are integers, the only *)
(*     operations on them being the comparisons of the schema;             *)
(*   - the database module (db, create_document, get_documents) is not     *)
(*     among the sources; it is modelled from its description.             *)
(***************************************************************************)
EXTENDS Integers, Sequences, FiniteSets, TLC

VARIABLES
    db,         \* database.db: "none" (db is None) or "handle"
    environ,    \* the environment variables that are set
    others,     \* number of collections of the database besides the four
    store,      \* the documents of each collection, in insertion order
    nextOid,    \* per collection, the sequence number of the next identifier
    request,    \* the request being answered
    response    \* the answer to it

vars == <<db, environ, others, store, nextOid, request, response>>

\* ------------------------------------------------------------------ bounds

\* documents per collection, in the specifications of one collection
MaxDocs == 3
\* documents in the four collections together, in the specification of the
\* whole service
MaxStored == 3
\* collections of the database besides the four of the service
MaxOthers == 7

\* --------------------------------------------------------- program constants

DefaultLimit == 100
MaxCollectionsShown == 10
MaxErrorText == 80
DefaultStock == 0
DefaultReorderLevel == 10
MaxTaxRate == 100

\* ------------------------------------------------------------------ helpers

Collections == <<"medicine", "prescription", "staff", "supplier">>

CollectionNames == {Collections[i] : i \in 1..Len(Collections)}

CollectionIndex(c) == CHOOSE i \in 1..Len(Collections) : Collections[i] = c

Min(a, b) == IF a <= b THEN a ELSE b

\* the value of a present optional
Val(o) == CHOOSE v \in o : TRUE

\* a field with a default: the default when the field is omitted
OrDefault(o, d) == IF o = {} THEN d ELSE Val(o)

\* s[:n] for n >= 0
Prefix(s, n) == SubSeq(s, 1, Min(n, Len(s)))

HexDigits ==
    <<"0", "1", "2", "3", "4", "5", "6", "7", "8", "9", "a", "b", "c", "d", "e", "f">>

\* str(ObjectId): the hexadecimal text of an identifier
ObjectIdStr(oid) ==
    <<HexDigits[oid.c + 1], HexDigits[(oid.n \div 16) + 1], HexDigits[(oid.n % 16) + 1]>>

\* ------------------------------------------------------- schemas: Medicine

Units == {"tablet", "capsule", "bottle", "syrup", "ml", "mg", "g", "pack", "unit"}

\* MedicineValid without the lower bound of stock
MedicineValid_StockUnchecked(b) ==
    /\ b.name # {}
    /\ b.price # {}
    /\ \A v \in b.price : v >= 0
    /\ \A v \in b.cost_price : v >= 0
    /\ \A v \in b.reorder_level : v >= 0
    /\ \A v \in b.unit : v \in Units
    /\ \A v \in b.tax_rate : v >= 0 /\ v <= MaxTaxRate

\* the constraints of the Medicine model on a request body
MedicineValid(b) ==
    /\ b.name # {}
    /\ b.price # {}
    /\ \A v \in b.price : v >= 0
    /\ \A v \in b.cost_price : v >= 0
    /\ \A v \in b.stock : v >= 0
    /\ \A v \in b.reorder_level : v >= 0
    /\ \A v \in b.unit : v \in Units
    /\ \A v \in b.tax_rate : v >= 0 /\ v <= MaxTaxRate

\* the validated model of a body: the fields given, the defaults for the rest
Medicine(b) ==
    [name          |-> b.name,
     generic_name  |-> b.generic_name,
     sku           |-> b.sku,
     price         |-> Val(b.price),
     cost_price    |-> b.cost_price,
     stock         |-> OrDefault(b.stock, DefaultStock),
     reorder_level |-> OrDefault(b.reorder_level, DefaultReorderLevel),
     unit          |-> OrDefault(b.unit, "unit"),
     tax_rate      |-> OrDefault(b.tax_rate, 0)]

\* ------------------------------------------- schemas: Prescription, Staff, Supplier

PrescriptionStatuses == {"pending", "dispensed", "cancelled"}

PaymentMethods == {"cash", "card", "upi", "insurance"}

Roles == {"Admin", "Pharmacist", "Sales", "Accountant"}

\* PrescriptionItemValid with quantity bounded by 0 instead of 1
PrescriptionItemValid_QuantityFromZero(it) ==
    /\ it.medicine_id # {}
    /\ it.quantity # {}
    /\ \A v \in it.quantity : v >= 0
    /\ it.unit_price # {}
    /\ \A v \in it.unit_price : v >= 0

\* the constraints of the PrescriptionItem model on one item of a body
PrescriptionItemValid(it) ==
    /\ it.medicine_id # {}
    /\ it.quantity # {}
    /\ \A v \in it.quantity : v >= 1
    /\ it.unit_price # {}
    /\ \A v \in it.unit_price : v >= 0

PrescriptionItem(it) ==
    [medicine_id |-> Val(it.medicine_id), quantity |-> Val(it.quantity),
     unit_price |-> Val(it.unit_price)]

\* the constraints of the Prescription model on a request body
PrescriptionValid(b) ==
    /\ b.patient_name # {}
    /\ \A items \in b.items : \A i \in 1..Len(items) : PrescriptionItemValid(items[i])
    /\ \A v \in b.subtotal : v >= 0
    /\ \A v \in b.tax : v >= 0
    /\ \A v \in b.total : v >= 0
    /\ \A v \in b.status : v \in PrescriptionStatuses
    /\ \A v \in b.payment_method : v \in PaymentMethods

\* the validated model: nothing is computed from the items
Prescription(b) ==
    [patient_name   |-> b.patient_name,
     items          |-> IF b.items = {} THEN <<>>
                        ELSE [i \in 1..Len(Val(b.items)) |-> PrescriptionItem(Val(b.items)[i])],
     subtotal       |-> OrDefault(b.subtotal, 0),
     tax            |-> OrDefault(b.tax, 0),
     total          |-> OrDefault(b.total, 0),
     status         |-> OrDefault(b.status, "pending"),
     payment_method |-> b.payment_method]

\* the constraints of the Staff model on a request body
StaffValid(b) ==
    /\ b.name # {}
    /\ b.email # {}
    /\ \A v \in b.role : v \in Roles

Staff(b) ==
    [name      |-> b.name,
     email     |-> b.email,
     role      |-> OrDefault(b.role, "Sales"),
     is_active |-> OrDefault(b.is_active, TRUE)]

\* the constraints of the Supplier model on a request body
SupplierValid(b) == b.name # {}

Supplier(b) == [name |-> b.name, contact_name |-> b.contact_name]

\* /schema: per collection, its fields and which of them are required
SCHEMA_REGISTRY ==
    [medicine     |-> [properties |-> {"name", "generic_name", "sku", "price",
                                       "cost_price", "stock", "reorder_level", "unit",
                                       "tax_rate"},
                       required |-> {"name", "price"}],
     prescription |-> [properties |-> {"patient_name", "items", "subtotal", "tax",
                                       "total", "status", "payment_method"},
                       required |-> {"patient_name"}],
     staff        |-> [properties |-> {"name", "email", "role", "is_active"},
                       required |-> {"name", "email"}],
     supplier     |-> [properties |-> {"name", "contact_name"},
                       required |-> {"name"}]]

\* ------------------------------------------------- the store's query language

\* case folding of the "i" option
Fold(c) == IF c = "A" THEN "a" ELSE IF c = "B" THEN "b" ELSE c

\* a pattern compiles unless it opens a group it never closes
RegexCompiles(pat) == \A k \in 1..Len(pat) : pat[k] # "("

\* one pattern element against one character: "." is any character
RegexCharMatches(pc, c, options) ==
    \/ pc = "."
    \/ IF options = "i" THEN Fold(pc) = Fold(c) ELSE pc = c

\* an unanchored $regex: the pattern matches somewhere in the text
RegexSearch(pat, text, options) ==
    \E i \in 0..(Len(text) - Len(pat)) :
        \A k \in 1..Len(pat) : RegexCharMatches(pat[k], text[i + k], options)

\* $regex on a field: a null field matches no pattern
RegexFieldMatches(value, pat, options) ==
    /\ value # {}
    /\ RegexSearch(pat, Val(value), options)

\* one top-level key of a filter against a document
ClauseHolds(doc, cl) ==
    CASE cl.k = "$or" ->
            \E i \in 1..Len(cl.fields) :
                RegexFieldMatches(doc[cl.fields[i]], cl.regex, cl.options)
      [] cl.k = "$expr" -> doc[cl.lhs] <= doc[cl.rhs]
      [] OTHER -> doc[cl.k] = cl.value

\* the top-level keys of a filter are combined with AND
Matches(doc, filt) == \A i \in 1..Len(filt) : ClauseHolds(doc, filt[i])

FilterCompiles(filt) ==
    \A i \in 1..Len(filt) : filt[i].k = "$or" => RegexCompiles(filt[i].regex)

\* ------------------------------------------------------------------ database

NewOid(c) == [c |-> CollectionIndex(c), n |-> nextOid[c]]

\* create_document raises when the store is not available or not reachable
CreateRaises(reachable) == db = "none" \/ ~reachable

\* create_document: insert the serialized payload under a fresh identifier;
\* the identifier is returned as a string
create_document(c, data, reachable) ==
    IF CreateRaises(reachable)
    THEN UNCHANGED <<store, nextOid>>
    ELSE /\ store' = [store EXCEPT ![c] = Append(@, [oid |-> NewOid(c), data |-> data])]
         /\ nextOid' = [nextOid EXCEPT ![c] = @ + 1]

\* the response of a POST handler around create_document
Created(c, reachable) ==
    IF CreateRaises(reachable) THEN [status |-> 500]
    ELSE [status |-> 200, body |-> [id |-> ObjectIdStr(NewOid(c))]]

\* a stored document as get_documents returns it: the identifier as a string
Returned(d) == [id |-> ObjectIdStr(d.oid), data |-> d.data]

\* get_documents: the possible outcomes of a filtered, limited read.  A limit
\* of 1 or more bounds the result.  What a limit of 0 or below selects is left
\* to the store, which does not read it as a bound: any prefix may come back.
get_documents(c, filt, limit) ==
    LET found == SelectSeq(store[c], LAMBDA d : Matches(d.data, filt))
        out(n) == [status |-> 200, body |-> [i \in 1..n |-> Returned(found[i])]]
    IN  {[status |-> 500]} \cup
        (IF db = "none" \/ ~FilterCompiles(filt) THEN {}
         ELSE IF limit >= 1 THEN {out(Min(limit, Len(found)))}
         ELSE {out(n) : n \in 0..Len(found)})

\* ------------------------------------------------------------------ medicines

\* a text parameter counts as given when it is not empty
Truthy(o) == o # {} /\ Val(o) # <<>>

\* medicines_filter with low_stock tested against None instead of for truth
medicines_filter_LowStockNotNone(q, low_stock) ==
    (IF Truthy(q)
     THEN <<[k |-> "$or", fields |-> <<"name", "generic_name", "sku">>,
             regex |-> Val(q), options |-> "i"]>>
     ELSE <<>>)
    \o
    (IF OrDefault(low_stock, FALSE) \in BOOLEAN
     THEN <<[k |-> "$expr", lhs |-> "stock", rhs |-> "reorder_level"]>>
     ELSE <<>>)

\* medicines_filter with the operands of $lte exchanged
medicines_filter_OperandsExchanged(q, low_stock) ==
    (IF Truthy(q)
     THEN <<[k |-> "$or", fields |-> <<"name", "generic_name", "sku">>,
             regex |-> Val(q), options |-> "i"]>>
     ELSE <<>>)
    \o
    (IF OrDefault(low_stock, FALSE)
     THEN <<[k |-> "$expr", lhs |-> "reorder_level", rhs |-> "stock"]>>
     ELSE <<>>)

\* the filter list_medicines builds
medicines_filter(q, low_stock) ==
    (IF Truthy(q)
     THEN <<[k |-> "$or", fields |-> <<"name", "generic_name", "sku">>,
             regex |-> Val(q), options |-> "i"]>>
     ELSE <<>>)
    \o
    (IF OrDefault(low_stock, FALSE)
     THEN <<[k |-> "$expr", lhs |-> "stock", rhs |-> "reorder_level"]>>
     ELSE <<>>)

\* POST /api/medicines
create_medicine(body, reachable) ==
    /\ request' = [op |-> "create_medicine", body |-> body]
    /\ IF MedicineValid(body)
       THEN /\ create_document("medicine", Medicine(body), reachable)
            /\ response' = Created("medicine", reachable)
       ELSE /\ response' = [status |-> 422]
            /\ UNCHANGED <<store, nextOid>>
    /\ UNCHANGED <<db, environ, others>>

\* GET /api/medicines
list_medicines(q, low_stock, limit) ==
    /\ request' = [op |-> "list_medicines", q |-> q, low_stock |-> low_stock,
                   limit |-> limit]
    /\ response' \in get_documents("medicine", medicines_filter(q, low_stock),
                                   OrDefault(limit, DefaultLimit))
    /\ UNCHANGED <<db, environ, others, store, nextOid>>

\* -------------------------------------------------------------- the others

\* a string parameter counts as given when it is not empty
TruthyStr(o) == o # {} /\ Val(o) # ""

\* POST /api/prescriptions
create_prescription(body, reachable) ==
    /\ request' = [op |-> "create_prescription", body |-> body]
    /\ IF PrescriptionValid(body)
       THEN /\ create_document("prescription", Prescription(body), reachable)
            /\ response' = Created("prescription", reachable)
       ELSE /\ response' = [status |-> 422]
            /\ UNCHANGED <<store, nextOid>>
    /\ UNCHANGED <<db, environ, others>>

\* the filter list_prescriptions builds
prescriptions_filter(status) ==
    IF TruthyStr(status) THEN <<[k |-> "status", value |-> Val(status)]>> ELSE <<>>

\* GET /api/prescriptions
list_prescriptions(status, limit) ==
    /\ request' = [op |-> "list_prescriptions", status |-> status, limit |-> limit]
    /\ response' \in get_documents("prescription", prescriptions_filter(status),
                                   OrDefault(limit, DefaultLimit))
    /\ UNCHANGED <<db, environ, others, store, nextOid>>

\* create_staff inserting into the supplier collection
create_staff_IntoSuppliers(body, reachable) ==
    /\ request' = [op |-> "create_staff", body |-> body]
    /\ IF StaffValid(body)
       THEN /\ create_document("supplier", Staff(body), reachable)
            /\ response' = Created("supplier", reachable)
       ELSE /\ response' = [status |-> 422]
            /\ UNCHANGED <<store, nextOid>>
    /\ UNCHANGED <<db, environ, others>>

\* POST /api/staff
create_staff(body, reachable) ==
    /\ request' = [op |-> "create_staff", body |-> body]
    /\ IF StaffValid(body)
       THEN /\ create_document("staff", Staff(body), reachable)
            /\ response' = Created("staff", reachable)
       ELSE /\ response' = [status |-> 422]
            /\ UNCHANGED <<store, nextOid>>
    /\ UNCHANGED <<db, environ, others>>

\* staff_filter with active tested for truth instead of against None
staff_filter_ActiveTruthy(role, active) ==
    (IF TruthyStr(role) THEN <<[k |-> "role", value |-> Val(role)]>> ELSE <<>>)
    \o
    (IF OrDefault(active, FALSE) THEN <<[k |-> "is_active", value |-> Val(active)]>>
     ELSE <<>>)

\* the filter list_staff builds
staff_filter(role, active) ==
    (IF TruthyStr(role) THEN <<[k |-> "role", value |-> Val(role)]>> ELSE <<>>)
    \o
    (IF active # {} THEN <<[k |-> "is_active", value |-> Val(active)]>> ELSE <<>>)

\* GET /api/staff
list_staff(role, active, limit) ==
    /\ request' = [op |-> "list_staff", role |-> role, active |-> active,
                   limit |-> limit]
    /\ response' \in get_documents("staff", staff_filter(role, active),
                                   OrDefault(limit, DefaultLimit))
    /\ UNCHANGED <<db, environ, others, store, nextOid>>

\* POST /api/suppliers
create_supplier(body, reachable) ==
    /\ request' = [op |-> "create_supplier", body |-> body]
    /\ IF SupplierValid(body)
       THEN /\ create_document("supplier", Supplier(body), reachable)
            /\ response' = Created("supplier", reachable)
       ELSE /\ response' = [status |-> 422]
            /\ UNCHANGED <<store, nextOid>>
    /\ UNCHANGED <<db, environ, others>>

\* the filter list_suppliers builds
suppliers_filter(q) ==
    IF Truthy(q)
    THEN <<[k |-> "$or", fields |-> <<"name", "contact_name">>,
            regex |-> Val(q), options |-> "i"]>>
    ELSE <<>>

\* list_suppliers never handing its limit on
list_suppliers_LimitDropped(q, limit) ==
    /\ request' = [op |-> "list_suppliers", q |-> q, limit |-> limit]
    /\ response' \in get_documents("supplier", suppliers_filter(q), DefaultLimit)
    /\ UNCHANGED <<db, environ, others, store, nextOid>>

\* GET /api/suppliers
list_suppliers(q, limit) ==
    /\ request' = [op |-> "list_suppliers", q |-> q, limit |-> limit]
    /\ response' \in get_documents("supplier", suppliers_filter(q),
                                   OrDefault(limit, DefaultLimit))
    /\ UNCHANGED <<db, environ, others, store, nextOid>>

\* GET /
read_root ==
    /\ request' = [op |-> "read_root"]
    /\ response' = [status |-> 200, body |-> [message |-> "Pharmacy Backend Running"]]
    /\ UNCHANGED <<db, environ, others, store, nextOid>>

\* GET /schema
get_schema ==
    /\ request' = [op |-> "get_schema"]
    /\ response' = [status |-> 200, body |-> SCHEMA_REGISTRY]
    /\ UNCHANGED <<db, environ, others, store, nextOid>>

\* db.list_collection_names(): the collections that exist in the database, a
\* collection of the service existing once it holds a document
CollectionListing ==
    [i \in 1..others |-> <<"other", i>>] \o
    SelectSeq([i \in 1..Len(Collections) |-> <<Collections[i], 0>>],
              LAMBDA n : store[n[1]] # <<>>)

EnvSet(name) == IF name \in environ THEN "Set" ELSE "Not Set"

\* test_database without the inner try: a failed listing is caught by the outer
\* handler no more, and the error text is not cut
test_database_ListingUncaught(listing) ==
    /\ request' = [op |-> "test_database", listing |-> listing]
    /\ response' =
         IF db = "handle" /\ listing.raised THEN [status |-> 500]
         ELSE
         [status |-> 200,
          body |->
            [backend           |-> "Running",
             database          |-> IF db = "none"
                                   THEN [label |-> "Not Available", error |-> <<>>]
                                   ELSE [label |-> "Connected & Working", error |-> <<>>],
             database_url      |-> EnvSet("DATABASE_URL"),
             database_name     |-> EnvSet("DATABASE_NAME"),
             connection_status |-> IF db = "none" THEN "Not Connected" ELSE "Connected",
             collections       |-> IF db = "none" THEN <<>>
                                   ELSE Prefix(CollectionListing, MaxCollectionsShown)]]
    /\ UNCHANGED <<db, environ, others, store, nextOid>>

\* GET /test; listing is the outcome of db.list_collection_names(): it raises
\* with the error text listing.error, or returns
test_database(listing) ==
    /\ request' = [op |-> "test_database", listing |-> listing]
    /\ response' =
         [status |-> 200,
          body |->
            [backend           |-> "Running",
             database          |-> IF db = "none"
                                   THEN [label |-> "Not Available", error |-> <<>>]
                                   ELSE IF listing.raised
                                   THEN [label |-> "Connected but Error",
                                         error |-> Prefix(listing.error, MaxErrorText)]
                                   ELSE [label |-> "Connected & Working", error |-> <<>>],
             database_url      |-> EnvSet("DATABASE_URL"),
             database_name     |-> EnvSet("DATABASE_NAME"),
             connection_status |-> IF db = "none" THEN "Not Connected" ELSE "Connected",
             collections       |-> IF db = "none" \/ listing.raised THEN <<>>
                                   ELSE Prefix(CollectionListing, MaxCollectionsShown)]]
    /\ UNCHANGED <<db, environ, others, store, nextOid>>

\* ------------------------------------------------------------ initial states

NoRequest == [op |-> "none"]

Init ==
    /\ db \in {"none", "handle"}
    /\ environ = {"DATABASE_URL", "DATABASE_NAME"}
    /\ others = 0
    /\ store = [c \in CollectionNames |-> <<>>]
    /\ nextOid = [c \in CollectionNames |-> 1]
    /\ request = NoRequest
    /\ response = NoRequest

\* ------------------------------------------- specification of the medicines

None == {}

MedicineBase ==
    [name |-> {<<"A", "b">>}, generic_name |-> None, sku |-> None,
     price |-> {5}, cost_price |-> None, stock |-> None, reorder_level |-> None,
     unit |-> None, tax_rate |-> None]

\* bodies that differ in the searched fields and in stock against reorder_level
MedicineBodies ==
    { MedicineBase,
      [MedicineBase EXCEPT !.name = {<<"b">>}, !.generic_name = {<<"a">>},
                           !.stock = {10}],
      [MedicineBase EXCEPT !.name = {<<"b">>}, !.sku = {<<"b", "A">>},
                           !.stock = {11}, !.unit = {"ml"}, !.tax_rate = {100},
                           !.price = {0}] }

\* the same bodies with price, stock, tax_rate and unit overridden, each by an
\* acceptable or an unacceptable value
MedicineOverridesOf(b) ==
    { [b EXCEPT !.price = p, !.stock = s, !.tax_rate = t, !.unit = u] :
        p \in {b.price, {-1}}, s \in {b.stock, {-1}},
        t \in {b.tax_rate, {101}}, u \in {b.unit, {"box"}} }

MedicineOverrides ==
    UNION { MedicineOverridesOf(b) : b \in MedicineBodies }
    \cup { [MedicineBase EXCEPT !.name = None], [MedicineBase EXCEPT !.price = None],
           [MedicineBase EXCEPT !.cost_price = {-1}],
           [MedicineBase EXCEPT !.reorder_level = {-1}] }

MedicineQueries ==
    {None, {<<>>}, {<<"a">>}, {<<"B", "a">>}, {<<".">>}, {<<"(">>}}

Limits == {None, {-1}, {0}, {1}, {MaxDocs}}

NextMedicines ==
    \/ \E b \in MedicineOverrides, reachable \in BOOLEAN :
          /\ Len(store["medicine"]) < MaxDocs
          /\ create_medicine(b, reachable)
    \/ \E q \in MedicineQueries, low_stock \in {None, {TRUE}, {FALSE}}, limit \in Limits :
          list_medicines(q, low_stock, limit)

SpecMedicines == Init /\ [][NextMedicines]_vars

\* ------------------------------------------------ specification of the staff

StaffBase ==
    [name |-> {<<"a">>}, email |-> {<<"a", "b">>}, role |-> None, is_active |-> None]

StaffBodies ==
    { [StaffBase EXCEPT !.role = r, !.is_active = a] :
        r \in {None, {"Admin"}}, a \in {None, {FALSE}} }
    \cup { [StaffBase EXCEPT !.role = {"Intern"}], [StaffBase EXCEPT !.email = None] }

RoleParams == {None, {""}, {"Admin"}, {"Sales"}, {"Intern"}}

NextStaff ==
    \/ \E b \in StaffBodies, reachable \in BOOLEAN :
          /\ Len(store["staff"]) < MaxDocs
          /\ create_staff(b, reachable)
    \/ \E role \in RoleParams, active \in {None, {TRUE}, {FALSE}}, limit \in Limits :
          list_staff(role, active, limit)

SpecStaff == Init /\ [][NextStaff]_vars

\* ---------------------------------------- specification of the prescriptions

Item(quantity, unit_price) ==
    [medicine_id |-> {<<"1", "0", "1">>}, quantity |-> {quantity},
     unit_price |-> {unit_price}]

PrescriptionBase ==
    [patient_name |-> {<<"a">>}, items |-> None, subtotal |-> None, tax |-> None,
     total |-> None, status |-> None, payment_method |-> None]

\* item lists: acceptable ones, and ones with a quantity below 1, a negative
\* unit_price or a missing medicine_id
ItemLists ==
    { None, {<<Item(1, 0)>>}, {<<Item(2, 5), Item(1, 0)>>},
      {<<Item(0, 5)>>}, {<<Item(1, 0), Item(0, 0)>>}, {<<Item(1, -1)>>},
      {<<[Item(1, 0) EXCEPT !.medicine_id = None]>>} }

\* subtotal, tax and total as the caller sends them: omitted, unrelated to the
\* items, negative
Amounts ==
    { [subtotal |-> None, tax |-> None, total |-> None],
      [subtotal |-> {7}, tax |-> {1}, total |-> {3}],
      [subtotal |-> {-1}, tax |-> None, total |-> None],
      [subtotal |-> {7}, tax |-> {-1}, total |-> {3}],
      [subtotal |-> {7}, tax |-> {1}, total |-> {-1}] }

PrescriptionBodies ==
    { [PrescriptionBase EXCEPT !.items = its, !.subtotal = a.subtotal, !.tax = a.tax,
                               !.total = a.total] :
        its \in ItemLists, a \in Amounts }
    \cup { [PrescriptionBase EXCEPT !.patient_name = None],
           [PrescriptionBase EXCEPT !.status = {"lost"}],
           [PrescriptionBase EXCEPT !.status = {"dispensed"}, !.payment_method = {"cash"}],
           [PrescriptionBase EXCEPT !.payment_method = {"cheque"}] }

StatusParams == {None, {""}, {"pending"}, {"dispensed"}}

NextPrescriptions ==
    \/ \E b \in PrescriptionBodies, reachable \in BOOLEAN :
          /\ Len(store["prescription"]) < MaxDocs
          /\ create_prescription(b, reachable)
    \/ \E status \in StatusParams, limit \in Limits :
          list_prescriptions(status, limit)

SpecPrescriptions == Init /\ [][NextPrescriptions]_vars

\* ------------------------------------------ specification of the diagnostics

SupplierBase == [name |-> {<<"A", "b">>}, contact_name |-> None]

\* the error text of a failed listing: of length n
ErrorText(n) == [i \in 1..n |-> "x"]

Listings ==
    {[raised |-> FALSE]} \cup
    {[raised |-> TRUE, error |-> ErrorText(n)] : n \in {0, MaxErrorText, MaxErrorText + 1}}

InitDiagnostics ==
    /\ db \in {"none", "handle"}
    /\ environ \in SUBSET {"DATABASE_URL", "DATABASE_NAME"}
    /\ others \in 0..MaxOthers
    /\ store = [c \in CollectionNames |-> <<>>]
    /\ nextOid = [c \in CollectionNames |-> 1]
    /\ request = NoRequest
    /\ response = NoRequest

NextDiagnostics ==
    \/ \E listing \in Listings : test_database(listing)
    \/ read_root
    \/ get_schema
    \/ \E reachable \in BOOLEAN :
          /\ Len(store["supplier"]) < 1
          /\ create_supplier(SupplierBase, reachable)
    \/ \E reachable \in BOOLEAN :
          /\ Len(store["staff"]) < 1
          /\ create_staff(StaffBase, reachable)

SpecDiagnostics == InitDiagnostics /\ [][NextDiagnostics]_vars

\* ------------------------------------------ specification of the whole service

\* the limits of the list requests of the whole service
LimitsAll == {None, {-1}, {0}, {1}, {2}}

\* the number of stored documents
Stored ==
    Len(store["medicine"]) + Len(store["prescription"]) + Len(store["staff"])
        + Len(store["supplier"])

Next ==
    \/ read_root
    \/ get_schema
    \/ \E listing \in Listings : test_database(listing)
    \/ \E b \in {MedicineBase, [MedicineBase EXCEPT !.stock = {11}],
                 [MedicineBase EXCEPT !.price = {-1}]},
          reachable \in BOOLEAN :
          /\ Stored < MaxStored
          /\ create_medicine(b, reachable)
    \/ \E q \in {None, {<<"a">>}}, low_stock \in {None, {TRUE}}, limit \in LimitsAll :
          list_medicines(q, low_stock, limit)
    \/ \E b \in {PrescriptionBase, [PrescriptionBase EXCEPT !.items = {<<Item(0, 5)>>}]},
          reachable \in BOOLEAN :
          /\ Stored < MaxStored
          /\ create_prescription(b, reachable)
    \/ \E status \in {None, {"dispensed"}}, limit \in LimitsAll :
          list_prescriptions(status, limit)
    \/ \E b \in {StaffBase, [StaffBase EXCEPT !.is_active = {FALSE}],
                 [StaffBase EXCEPT !.role = {"Intern"}]},
          reachable \in BOOLEAN :
          /\ Stored < MaxStored
          /\ create_staff(b, reachable)
    \/ \E role \in {None, {"Admin"}}, active \in {None, {TRUE}}, limit \in LimitsAll :
          list_staff(role, active, limit)
    \/ \E b \in {SupplierBase, [SupplierBase EXCEPT !.name = None]},
          reachable \in BOOLEAN :
          /\ Stored < MaxStored
          /\ create_supplier(b, reachable)
    \/ \E q \in {None, {<<"b", "b">>}}, limit \in LimitsAll :
          list_suppliers(q, limit)

Spec == Init /\ [][Next]_vars

\* ---------------------------------------------------- claims on the medicines

\* the identifiers of the stored documents, as the service returns them
StoredIds(st) ==
    UNION {{ObjectIdStr(st[c][i].oid) : i \in 1..Len(st[c])} : c \in CollectionNames}

\* the documents of a list response
Listed(resp) == {resp.body[i] : i \in 1..Len(resp.body)}

\* the stored documents of a collection that satisfy Test, as returned
StoredWhere(c, Test(_)) ==
    {Returned(store[c][i]) : i \in {j \in 1..Len(store[c]) : Test(store[c][j].data)}}

\* a list request whose limit is not smaller than the collection
LimitCovers(c) == OrDefault(request.limit, DefaultLimit) >= Len(store[c])

\* q occurs in text as a substring, letter case ignored
ContainsCI(q, text) ==
    \E i \in 0..(Len(text) - Len(q)) :
        \A k \in 1..Len(q) : Fold(q[k]) = Fold(text[i + k])

\* q occurs in a text field that is not null
FieldContainsCI(q, value) == value # {} /\ ContainsCI(q, Val(value))

\* q occurs in name, in generic_name or in sku
MedicineContains(q, m) ==
    \/ FieldContainsCI(q, m.name)
    \/ FieldContainsCI(q, m.generic_name)
    \/ FieldContainsCI(q, m.sku)

LowStock(m) == m.stock <= m.reorder_level

PostedMedicine == request.op = "create_medicine" /\ response.status = 200

ListedMedicines == request.op = "list_medicines" /\ response.status = 200

\* C1: a successful POST /api/medicines returns an identifier that no stored
\* document carries (every identifier returned earlier is the identifier of a
\* stored document), and a GET /api/medicines that follows it with no filter
\* and a covering limit lists the validated payload under that identifier.
C1_PostThenGet ==
    [][ /\ (PostedMedicine' => response'.body.id \notin StoredIds(store))
        /\ (/\ PostedMedicine
            /\ ListedMedicines'
            /\ ~Truthy(request'.q)
            /\ ~OrDefault(request'.low_stock, FALSE)
            /\ LimitCovers("medicine")'
            => [id |-> response.body.id, data |-> Medicine(request.body)]
                   \in Listed(response')) ]_vars

\* C1 witness: an unfiltered list of a collection of two or more medicines
C1_Witness ==
    /\ ListedMedicines
    /\ ~Truthy(request.q)
    /\ ~OrDefault(request.low_stock, FALSE)
    /\ LimitCovers("medicine")
    /\ Len(response.body) >= 2
    /\ response.body[1].id # response.body[2].id

\* a body the claim names: negative price or stock, tax_rate above 100, or a
\* unit outside the enumeration
MedicineOutOfRange(b) ==
    \/ \E v \in b.price : v < 0
    \/ \E v \in b.stock : v < 0
    \/ \E v \in b.tax_rate : v > 100
    \/ \E v \in b.unit : v \notin Units

\* C3: a POST /api/medicines with a negative price, a negative stock, a
\* tax_rate above 100 or an unknown unit is answered with a validation error
\* and leaves every collection as it was.
C3_InvalidMedicineRejected ==
    [][ request'.op = "create_medicine" /\ MedicineOutOfRange(request'.body)
        => response'.status = 422 /\ store' = store ]_vars

\* C3 witness: such a body was rejected while medicines are stored
C3_Witness ==
    /\ request.op = "create_medicine"
    /\ MedicineOutOfRange(request.body)
    /\ request.body.name # {}
    /\ response.status = 422
    /\ Len(store["medicine"]) >= 1

\* C4: with low_stock=true, no q and a covering limit, the list is exactly the
\* stored medicines with stock <= reorder_level; with low_stock false or
\* omitted it is all stored medicines.
C4_LowStock ==
    ListedMedicines /\ ~Truthy(request.q) /\ LimitCovers("medicine")
    => Listed(response) =
         IF request.low_stock = {TRUE}
         THEN StoredWhere("medicine", LowStock)
         ELSE StoredWhere("medicine", LAMBDA m : TRUE)

\* C4 witness: a low_stock list that holds a medicine with stock equal to its
\* reorder_level and leaves out a stored medicine
C4_Witness ==
    /\ ListedMedicines /\ ~Truthy(request.q) /\ LimitCovers("medicine")
    /\ request.low_stock = {TRUE}
    /\ \E d \in Listed(response) : d.data.stock = d.data.reorder_level
    /\ Len(response.body) < Len(store["medicine"])

\* C5: for every q, the list (low_stock off, covering limit) is exactly the
\* stored medicines in which q occurs as a substring, letter case ignored, of
\* name, generic_name or sku.
C5_SubstringSearch ==
    /\ ListedMedicines /\ request.q # {}
    /\ ~OrDefault(request.low_stock, FALSE) /\ LimitCovers("medicine")
    => Listed(response) =
         StoredWhere("medicine", LAMBDA m : MedicineContains(Val(request.q), m))

\* C7: with q and low_stock=true together, the list is exactly the stored
\* medicines that pass the substring test and have stock <= reorder_level.
C7_SearchAndLowStock ==
    /\ ListedMedicines /\ request.q # {}
    /\ request.low_stock = {TRUE} /\ LimitCovers("medicine")
    => Listed(response) =
         StoredWhere("medicine",
                     LAMBDA m : MedicineContains(Val(request.q), m) /\ LowStock(m))

\* --------------------------------------------------------- claims on the staff

ListedStaff == request.op = "list_staff" /\ response.status = 200

\* the restriction the parameters of a staff request state: the role given,
\* the activity given
StaffRestriction(st) ==
    /\ \A r \in request.role : st.role = r
    /\ \A a \in request.active : st.is_active = a

\* C6 as stated: active=false lists only inactive staff, active=true only
\* active staff, active omitted both; a supplied role restricts the list to the
\* records with exactly that role; both together give the intersection.
C6_StaffFilters ==
    ListedStaff /\ LimitCovers("staff")
    => Listed(response) = StoredWhere("staff", StaffRestriction)

\* C6 amended: the same, for a role that is omitted or not the empty string
C6_StaffFiltersNonEmptyRole ==
    ListedStaff /\ LimitCovers("staff") /\ request.role # {""}
    => Listed(response) = StoredWhere("staff", StaffRestriction)

\* C6 witness: role and active=false together select some, not all, staff
C6_Witness ==
    /\ ListedStaff /\ LimitCovers("staff")
    /\ request.role = {"Admin"} /\ request.active = {FALSE}
    /\ Len(response.body) >= 1
    /\ Len(response.body) < Len(store["staff"])
    /\ \E i \in 1..Len(store["staff"]) :
          store["staff"][i].data.role = "Admin" /\ store["staff"][i].data.is_active

\* ------------------------------------------------- claims on the prescriptions

\* some item of the body has a quantity below 1
SomeQuantityBelowOne(b) ==
    \E items \in b.items : \E i \in 1..Len(items) : \E v \in items[i].quantity : v < 1

\* every item of the body has quantity >= 1 and unit_price >= 0
ItemsInRange(b) ==
    \A items \in b.items : \A i \in 1..Len(items) :
        /\ items[i].quantity # {} /\ \A v \in items[i].quantity : v >= 1
        /\ items[i].unit_price # {} /\ \A v \in items[i].unit_price : v >= 0

\* the fields the claim does not speak of are acceptable
RestOfPrescriptionValid(b) ==
    /\ b.patient_name # {}
    /\ \A items \in b.items : \A i \in 1..Len(items) : items[i].medicine_id # {}
    /\ \A v \in b.status : v \in PrescriptionStatuses
    /\ \A v \in b.payment_method : v \in PaymentMethods

AmountsNonNegative(b) ==
    /\ \A v \in b.subtotal : v >= 0
    /\ \A v \in b.tax : v >= 0
    /\ \A v \in b.total : v >= 0

\* the prescription stored last carries the amounts of the body
StoredWithAmountsOf(b, st) ==
    /\ st["prescription"] # <<>>
    /\ LET d == st["prescription"][Len(st["prescription"])].data
       IN  /\ d.subtotal = OrDefault(b.subtotal, 0)
           /\ d.tax = OrDefault(b.tax, 0)
           /\ d.total = OrDefault(b.total, 0)

\* C10 as stated: a body with an item of quantity below 1 is rejected and
\* nothing is stored; a body whose items all have quantity >= 1 and
\* unit_price >= 0 is accepted and stored with the caller's subtotal, tax and
\* total, whatever these are.
C10_PrescriptionItems ==
    [][ request'.op = "create_prescription" =>
          /\ (SomeQuantityBelowOne(request'.body)
              => response'.status = 422 /\ store' = store)
          /\ (ItemsInRange(request'.body) /\ RestOfPrescriptionValid(request'.body)
              => /\ response'.status # 422
                 /\ (response'.status = 200
                     => StoredWithAmountsOf(request'.body, store'))) ]_vars

\* C10 amended: the same, the accepted bodies being those whose subtotal, tax
\* and total are each omitted or >= 0
C10_PrescriptionItemsNonNegativeAmounts ==
    [][ request'.op = "create_prescription" =>
          /\ (SomeQuantityBelowOne(request'.body)
              => response'.status = 422 /\ store' = store)
          /\ (/\ ItemsInRange(request'.body)
              /\ RestOfPrescriptionValid(request'.body)
              /\ AmountsNonNegative(request'.body)
              => /\ response'.status # 422
                 /\ (response'.status = 200
                     => StoredWithAmountsOf(request'.body, store'))) ]_vars

\* C10 witness: quantity 1 at unit_price 0 was stored with a subtotal of 7
C10_Witness ==
    /\ request.op = "create_prescription"
    /\ response.status = 200
    /\ request.body.items = {<<Item(1, 0)>>}
    /\ request.body.subtotal = {7}
    /\ StoredWithAmountsOf(request.body, store)

\* ------------------------------------------------- claims on the diagnostics

CreateOps ==
    [medicine |-> "create_medicine", prescription |-> "create_prescription",
     staff |-> "create_staff", supplier |-> "create_supplier"]

ListOps ==
    [medicine |-> "list_medicines", prescription |-> "list_prescriptions",
     staff |-> "list_staff", supplier |-> "list_suppliers"]

\* C2: a successful POST adds exactly one document at the end of its own
\* collection and leaves the other collections as they were; every other
\* request leaves all four collections as they were; a stored document keeps
\* its identifier and its fields.
C2_OnlyPostsChangeTheStore ==
    [][ /\ \A c \in CollectionNames :
            request'.op = CreateOps[c] /\ response'.status = 200
            => /\ Len(store'[c]) = Len(store[c]) + 1
               /\ \A o \in CollectionNames \ {c} : store'[o] = store[o]
        /\ (\A c \in CollectionNames :
                ~(request'.op = CreateOps[c] /\ response'.status = 200))
           => store' = store
        /\ \A c \in CollectionNames : \A i \in 1..Len(store[c]) :
              Len(store'[c]) >= i /\ store'[c][i] = store[c][i] ]_vars

\* C2 witness: a list was answered while three collections hold documents
C2_Witness ==
    /\ \E c \in CollectionNames : request.op = ListOps[c]
    /\ response.status = 200
    /\ Cardinality({c \in CollectionNames : store[c] # <<>>}) >= 3

\* the filter the list request was answered with
FilterOf(req) ==
    CASE req.op = "list_medicines" -> medicines_filter(req.q, req.low_stock)
      [] req.op = "list_prescriptions" -> prescriptions_filter(req.status)
      [] req.op = "list_staff" -> staff_filter(req.role, req.active)
      [] req.op = "list_suppliers" -> suppliers_filter(req.q)

\* the number of stored documents that match the filter of the request
Matching(c) == Len(SelectSeq(store[c], LAMBDA d : Matches(d.data, FilterOf(request))))

====
